---- MODULE Spec2Model ----
(***************************************************************************)
(* Model of @thanhhoajs/swagger: the decorators that record OpenAPI        *)
(* metadata on controllers, handlers and model classes (Reflect metadata   *)
(* plus the global registry __swagger_schemas) and SwaggerExplorer, which   *)
(* turns a list of modules into {paths, components.schemas}, and           *)
(* setupSwagger, which assembles the served document from a base document  *)
(* and the explorer's output and registers the documentation routes.       *)
(*                                                                         *)
(* JavaScript objects are TLA+ functions whose domain is the set of keys   *)
(* that are present; a string that the code inspects character by          *)
(* character (a path) is a sequence of one-character strings.              *)
(***************************************************************************)
EXTENDS Integers, Sequences, FiniteSets, TLC

VARIABLES
  classMeta,     \* Reflect metadata SWAGGER_METADATA on a class constructor
  protoMeta,     \* Reflect metadata SWAGGER_METADATA on a class prototype
  methodMeta,    \* Reflect metadata SWAGGER_METADATA on (prototype, method)
  registry,      \* global.__swagger_schemas: the registered names, in insertion order
  ctrlBase,      \* CONTROLLER_METADATA_KEY of each controller (its base path)
  routes,        \* ROUTE_METADATA_KEY of each (controller, method)
  paths,         \* SwaggerExplorer.paths
  schemas,       \* SwaggerExplorer.schemas
  lastCall,      \* the latest explore call: arguments, store read, outcome
  prevCall,      \* the explore call before it
  nAnnotations,  \* number of decorators applied so far
  nExplores,     \* number of explore calls so far
  aliased,       \* the handler's parameters array is the prototype's parameters array
  sharedProperties,   \* the subclass's properties object is its superclass's
  securityApplied,    \* the security requirements applied to each target, in order
  parametersApplied,  \* the <<name, in>> of the parameters applied to the handler, in order
  config,        \* SwaggerService: the configuration set by setConfig
  document,      \* SwaggerService: the document set by setDocument (the served one)
  generated,     \* SwaggerService: what generateDocument kept (getPaths, getComponents)
  appModules,    \* the modules registered on the application
  appRoutes,     \* the GET routes registered on the application, in order
  lastSetup,     \* the latest setupSwagger or setDocument call and its outcome
  nSetups        \* number of setupSwagger and setDocument calls so far

vars == <<classMeta, protoMeta, methodMeta, registry, ctrlBase, routes,
          paths, schemas, lastCall, prevCall, nAnnotations, nExplores,
          aliased, sharedProperties, securityApplied, parametersApplied,
          config, document, generated, appModules, appRoutes, lastSetup, nSetups>>

store == <<classMeta, protoMeta, methodMeta, registry>>
framework == <<ctrlBase, routes>>
explorer == <<paths, schemas, lastCall, prevCall, nExplores>>
applied == <<securityApplied, parametersApplied>>
service == <<config, document, generated>>
app == <<appModules, appRoutes, lastSetup, nSetups>>

-----------------------------------------------------------------------------
(* Bounds of the model. *)

MaxAnnotations == 2
MaxExplores == 2
MaxCallDepth == 3
MaxSetups == 2

-----------------------------------------------------------------------------
(* JavaScript objects. *)

EmptyObj == [k \in {} |-> 0]

Has(o, k) == k \in DOMAIN o

\* { ...a, ...b }
Spread(a, b) ==
  [k \in (DOMAIN a) \cup (DOMAIN b) |-> IF k \in DOMAIN b THEN b[k] ELSE a[k]]

\* { ...o, [k]: v }
Put(o, k, v) == Spread(o, [x \in {k} |-> v])

\* o without the key k (a key whose value is undefined is not in the output)
Without(o, k) == [x \in (DOMAIN o) \ {k} |-> o[x]]

\* o.k || dflt
GetOr(o, k, dflt) == IF Has(o, k) THEN o[k] ELSE dflt

-----------------------------------------------------------------------------
(* Paths. *)

SLASH == "/"
COLON == ":"

RECURSIVE StripLeadingSlashes(_)
\* s.replace(/^\/+/, "")
StripLeadingSlashes(s) ==
  IF s # <<>> /\ Head(s) = SLASH THEN StripLeadingSlashes(Tail(s)) ELSE s

RECURSIVE StripTrailingSlashes(_)
\* s.replace(/\/+$/, "")
StripTrailingSlashes(s) ==
  IF s # <<>> /\ s[Len(s)] = SLASH
    THEN StripTrailingSlashes(SubSeq(s, 1, Len(s) - 1))
    ELSE s

\* a normalizePath that leaves the trailing slashes in place
normalizePath_KeepTrailing(path) == <<SLASH>> \o StripLeadingSlashes(path)

normalizePath(path) ==
  <<SLASH>> \o StripTrailingSlashes(StripLeadingSlashes(path))

\* routePath === "" ? "" : `/${routePath.replace(/^\/+/, "")}`
methodPath(routePath) ==
  IF routePath = <<>> THEN <<>> ELSE <<SLASH>> \o StripLeadingSlashes(routePath)

fullPath(basePath, routePath) == normalizePath(basePath \o methodPath(routePath))

RECURSIVE NameEnd(_, _)
\* the last index of the run of non-'/' characters of path that starts at i
NameEnd(path, i) ==
  IF i + 1 <= Len(path) /\ path[i + 1] # SLASH THEN NameEnd(path, i + 1) ELSE i

pathParameter(name) ==
  [name |-> name, in |-> "path", required |-> TRUE, schema |-> [type |-> "string"]]

RECURSIVE ScanPathParameters(_, _)
\* the exec loop of /:([^/]+)/g over path, from index i on
ScanPathParameters(path, i) ==
  IF i > Len(path) THEN <<>>
  ELSE IF path[i] = COLON /\ i + 1 <= Len(path) /\ path[i + 1] # SLASH
    THEN LET j == NameEnd(path, i + 1)
         IN  <<pathParameter(SubSeq(path, i + 1, j))>> \o ScanPathParameters(path, j + 1)
    ELSE ScanPathParameters(path, i + 1)

\* an extractPathParameters whose regular expression lacks the g flag
extractPathParameters_FirstOnly(path) ==
  LET all == ScanPathParameters(path, 1)
  IN  IF all = <<>> THEN <<>> ELSE <<Head(all)>>

extractPathParameters(path) == ScanPathParameters(path, 1)

-----------------------------------------------------------------------------
(* Ordered maps: an object whose key order the code relies on, as the      *)
(* sequence of its <<key, value>> entries in insertion order.              *)

OMHas(m, k) == \E i \in 1..Len(m) : m[i][1] = k

\* m[k] = v: an existing key keeps its position, a new key goes last
OMPut(m, k, v) ==
  IF OMHas(m, k)
    THEN [i \in 1..Len(m) |-> IF m[i][1] = k THEN <<k, v>> ELSE m[i]]
    ELSE Append(m, <<k, v>>)

-----------------------------------------------------------------------------
(* The declared program: classes, handlers, modules. *)

Controllers == {"UsersController", "OrgsController"}

\* Object.getOwnPropertyNames(prototype) without "constructor", in declaration order
HandlersOf(c) == IF c = "UsersController" THEN <<"find", "list">> ELSE <<"find">>

Endpoints ==
  UNION {{<<c, HandlersOf(c)[i]>> : i \in 1..Len(HandlersOf(c))} : c \in Controllers}

Models == {"User", "Post"}

\* class Admin extends User: the one model class that extends another
ModelClasses == Models \cup {"Admin"}

\* the class a class extends, "" when it extends none
superclass(c) == IF c = "Admin" THEN "User" ELSE ""

\* Reflect.getMetadata("module", module)
moduleMetadata(module) ==
  CASE module = "UsersModule" -> [controllers |-> <<"UsersController">>]
    [] module = "OrgsModule" -> [controllers |-> <<"OrgsController">>]
    [] module = "AppModule" -> [controllers |-> <<"UsersController", "OrgsController">>]
    [] OTHER -> EmptyObj

-----------------------------------------------------------------------------
(* Types as the decorators see them: a constructor (by name), an array     *)
(* literal [T] or [], or undefined.                                        *)

NoType == [isArray |-> FALSE, name |-> ""]
Ctor(n) == [isArray |-> FALSE, name |-> n]

Primitives == {"String", "Number", "Boolean", "Date", "Object"}

\* "#/components/schemas/<name>", as its segments between the '/'
RefTo(typeName) == [ref |-> <<"#", "components", "schemas", typeName>>]

\* ref.$ref.split("/").pop()
refNameOf(r) == r.ref[Len(r.ref)]

typeMap(n) ==
  CASE n = "String" -> [type |-> "string"]
    [] n = "Number" -> [type |-> "number"]
    [] n = "Boolean" -> [type |-> "boolean"]
    [] n = "Date" -> [type |-> "string", format |-> "date-time"]
    [] n = "Object" -> [type |-> "object"]

\* getSchemaFromType for a type that is not an array literal
SchemaFromConstructor(type) ==
  IF type = NoType THEN EmptyObj
  ELSE IF type.name = "Array"
    \* type === Array: Array.length is 1 and Array[0] is undefined
    THEN [type |-> "array", items |-> EmptyObj]
  ELSE IF type.name \in Primitives THEN typeMap(type.name)
  ELSE RefTo(type.name)

getSchemaFromType(type) ==
  IF type = NoType THEN EmptyObj
  ELSE IF type.isArray
    \* an array literal: its first element, or Object when it is empty
    THEN [type |-> "array",
          items |-> SchemaFromConstructor(IF type.name # "" THEN Ctor(type.name)
                                                           ELSE Ctor("Object"))]
  ELSE SchemaFromConstructor(type)

-----------------------------------------------------------------------------
(* Decorators on handlers and controllers. Each reads the record stored on *)
(* its target (Reflect.getMetadata(...) || {}) and defines a new one.      *)

Annotate == nAnnotations < MaxAnnotations /\ nAnnotations' = nAnnotations + 1

ApiOperation(t, metadata) ==
  /\ Annotate
  /\ methodMeta' = [methodMeta EXCEPT ![t] = Spread(@, [operation |-> metadata])]
  /\ UNCHANGED <<classMeta, protoMeta, registry, framework, explorer,
                   aliased, applied, service, app, sharedProperties>>

\* ApiTags on a handler (propertyKey && descriptor)
ApiTagsMethod(t, tags) ==
  /\ Annotate
  /\ methodMeta' = [methodMeta EXCEPT ![t] = Spread(@, [tags |-> tags])]
  /\ UNCHANGED <<classMeta, protoMeta, registry, framework, explorer,
                   aliased, applied, service, app, sharedProperties>>

\* ApiTags on a controller class
ApiTagsClass(c, tags) ==
  /\ Annotate
  /\ classMeta' = [classMeta EXCEPT ![c] = Spread(@, [tags |-> tags])]
  /\ UNCHANGED <<protoMeta, methodMeta, registry, framework, explorer,
                   aliased, applied, service, app, sharedProperties>>

\* parameters.push({ ...param, in: where }) and the record defined from it
PushParameter(existingMetadata, param, where) ==
  Spread(existingMetadata,
         [parameters |-> Append(GetOr(existingMetadata, "parameters", <<>>),
                                Spread(param, [in |-> where]))])

\* the push is in place: when the handler's parameters array is the array of the
\* prototype's record, that record shows the pushed entry too
PushedThrough(t, param, where) ==
  IF aliased
    THEN [protoMeta EXCEPT ![t[1]] = PushParameter(@, param, where)]
    ELSE protoMeta

ApiParam(t, param) ==
  /\ Annotate
  /\ methodMeta' = [methodMeta EXCEPT ![t] = PushParameter(@, param, "path")]
  /\ protoMeta' = PushedThrough(t, param, "path")
  /\ parametersApplied' = Append(parametersApplied, <<param.name, "path">>)
  /\ UNCHANGED <<classMeta, registry, framework, explorer,
                 aliased, securityApplied, service, app, sharedProperties>>

ApiQuery(t, param) ==
  /\ Annotate
  /\ methodMeta' = [methodMeta EXCEPT ![t] = PushParameter(@, param, "query")]
  /\ protoMeta' = PushedThrough(t, param, "query")
  /\ parametersApplied' = Append(parametersApplied, <<param.name, "query">>)
  /\ UNCHANGED <<classMeta, registry, framework, explorer,
                 aliased, securityApplied, service, app, sharedProperties>>

\* options.type || the design-time type
TypeOr(options, designType) ==
  IF Has(options, "type") /\ options.type # NoType THEN options.type ELSE designType

JsonContent(schema) == [k \in {"application/json"} |-> [schema |-> schema]]

ApiBody(t, options, designParamType) ==
  LET schema == getSchemaFromType(TypeOr(options, designParamType))
      requestBody == Spread([required |-> TRUE, content |-> JsonContent(schema)],
                            options)
  IN  /\ Annotate
      /\ methodMeta' = [methodMeta EXCEPT ![t] = Spread(@, [requestBody |-> requestBody])]
      /\ UNCHANGED <<classMeta, protoMeta, registry, framework, explorer,
                   aliased, applied, service, app, sharedProperties>>

ApiResponse(t, statusCode, options, designReturnType) ==
  LET schema == getSchemaFromType(TypeOr(options, designReturnType))
      response == Spread([description |-> "Successful response",
                          content |-> JsonContent(schema)],
                         options)
      responses == Put(GetOr(methodMeta[t], "responses", EmptyObj), statusCode, response)
  IN  /\ Annotate
      /\ methodMeta' = [methodMeta EXCEPT ![t] = Spread(@, [responses |-> responses])]
      /\ UNCHANGED <<classMeta, protoMeta, registry, framework, explorer,
                   aliased, applied, service, app, sharedProperties>>

\* ApiHeader / ApiCookieParam on a handler (propertyKey given). The record read is
\* the one of the target alone, the prototype, not the handler's; the entry is pushed
\* onto it in place and the same object is then defined on the handler.
HeaderParameter(t, options, where) ==
  LET existing == protoMeta[t[1]]
      metadata == Spread(existing,
                         [parameters |-> Append(GetOr(existing, "parameters", <<>>),
                                                Spread([in |-> where], options))])
  IN  /\ Annotate
      /\ methodMeta' = [methodMeta EXCEPT ![t] = metadata]
      /\ protoMeta' = IF DOMAIN existing = {} THEN protoMeta
                      ELSE [protoMeta EXCEPT ![t[1]] = metadata]
      /\ aliased' = (DOMAIN existing # {})
      /\ parametersApplied' = Append(parametersApplied, <<options.name, where>>)
      /\ UNCHANGED <<classMeta, registry, framework, explorer,
                     securityApplied, service, app, sharedProperties>>

ApiHeader(t, options) == HeaderParameter(t, options, "header")

ApiCookieParam(t, options) == HeaderParameter(t, options, "cookie")

-----------------------------------------------------------------------------
(* Security decorators. A target is <<"class", controller>> or             *)
(* <<"method", handler>>.                                                  *)

\* [{ [name]: scopes }]
Requirement(name, scopes) == [k \in {name} |-> scopes]

\* a scheme decorator's record without its security list
SchemeMetadata_SchemeOnly(name, scheme) ==
  [components |-> [securitySchemes |-> [k \in {name} |-> scheme]]]

\* the record a scheme decorator builds: the scheme and the requirement
SchemeMetadata(name, scheme) ==
  [components |-> [securitySchemes |-> [k \in {name} |-> scheme]],
   security |-> <<Requirement(name, <<>>)>>]

\* what the decorator was given, kept to state the properties
Application(kind, name, scopes, options) ==
  [kind |-> kind, name |-> name, scopes |-> scopes, options |-> options]

\* (target) => Reflect.defineMetadata(SWAGGER_METADATA, metadata, target): the
\* decorator takes its first argument only, which is the class when it decorates a
\* class and the prototype when it decorates a method
DefineScheme(target, metadata, given) ==
  /\ Annotate
  /\ IF target[1] = "class"
       THEN /\ classMeta' = [classMeta EXCEPT ![target[2]] = metadata]
            /\ UNCHANGED <<protoMeta, aliased>>
       ELSE /\ protoMeta' = [protoMeta EXCEPT ![target[2][1]] = metadata]
            /\ aliased' = FALSE
            /\ UNCHANGED classMeta
  /\ securityApplied' = [securityApplied EXCEPT ![target[1]] = Append(@, given)]
  /\ UNCHANGED <<methodMeta, registry, framework, explorer,
                 parametersApplied, service, app, sharedProperties>>

ApiBasicAuth(target, options) ==
  DefineScheme(target,
               SchemeMetadata("basicAuth",
                              Spread([type |-> "http", scheme |-> "basic"], options)),
               Application("ApiBasicAuth", "basicAuth", <<>>, options))

ApiBearerAuth(target, options) ==
  DefineScheme(target,
               SchemeMetadata("bearerAuth",
                              Spread([type |-> "http", scheme |-> "bearer",
                                      bearerFormat |-> "JWT"], options)),
               Application("ApiBearerAuth", "bearerAuth", <<>>, options))

ApiOAuth2(target, flows) ==
  DefineScheme(target,
               SchemeMetadata("oauth2", [type |-> "oauth2", flows |-> flows]),
               Application("ApiOAuth2", "oauth2", <<>>, flows))

\* ApiSecurity: { ...existingMetadata, security } on the handler (descriptor given)
\* or on the class
ApiSecurity(target, name, scopes) ==
  LET security == <<Requirement(name, scopes)>> IN
  /\ Annotate
  /\ IF target[1] = "method"
       THEN /\ methodMeta' = [methodMeta EXCEPT ![target[2]] =
                                Spread(@, [security |-> security])]
            /\ UNCHANGED classMeta
       ELSE /\ classMeta' = [classMeta EXCEPT ![target[2]] =
                               Spread(@, [security |-> security])]
            /\ UNCHANGED methodMeta
  /\ securityApplied' = [securityApplied EXCEPT ![target[1]] =
                           Append(@, Application("ApiSecurity", name, scopes, EmptyObj))]
  /\ UNCHANGED <<protoMeta, registry, framework, explorer,
                 aliased, parametersApplied, service, app, sharedProperties>>

-----------------------------------------------------------------------------
(* Decorators on model classes. *)

\* Reflect.getMetadata(SWAGGER_METADATA, target) || {} for a class
classMetadata(target) ==
  IF target \notin DOMAIN classMeta THEN EmptyObj
  ELSE IF DOMAIN classMeta[target] # {} \/ superclass(target) = ""
    THEN classMeta[target]
  \* no own record: Reflect.getMetadata goes on to the constructor it extends
  ELSE classMeta[superclass(target)]

\* __swagger_schemas.set(name, target): a Map keeps the position of an existing key
registrySet(reg, typeName) ==
  IF \E i \in 1..Len(reg) : reg[i] = typeName THEN reg ELSE Append(reg, typeName)

registryHas(reg, typeName) == \E i \in 1..Len(reg) : reg[i] = typeName

\* model.decorator getSchemaForType: the schema it returns
getSchemaForType(type) ==
  IF type = NoType THEN EmptyObj
  ELSE CASE type.name = "String" -> [type |-> "string"]
         [] type.name = "Number" -> [type |-> "number"]
         [] type.name = "Boolean" -> [type |-> "boolean"]
         [] type.name = "Date" -> [type |-> "string", format |-> "date-time"]
         [] type.name = "Array" -> [type |-> "array", items |-> EmptyObj]
         [] OTHER -> RefTo(type.name)

\* model.decorator getSchemaForType: the registry it leaves (a class type is
\* registered unless its name already is)
registerType(reg, type) ==
  IF type = NoType \/ type.name \in {"String", "Number", "Boolean", "Date", "Array"}
    THEN reg
    ELSE registrySet(reg, type.name)

propertySchema(propertyType, metadata) ==
  IF propertyType = Ctor("Array")
    THEN Spread([type |-> "array",
                 items |-> Spread([type |-> "string"], GetOr(metadata, "items", EmptyObj))],
                metadata)
    ELSE Spread(getSchemaForType(propertyType), metadata)

\* the other classes whose record holds the properties object that a model
\* decorator on m reads (existingMetadata.properties): the class m shares it with,
\* or the superclass whose record the lookup found
sharers(m) ==
  IF m = "Admin"
    THEN IF DOMAIN classMeta[m] # {}
           THEN (IF sharedProperties THEN {superclass(m)} ELSE {})
           ELSE (IF DOMAIN classMeta[superclass(m)] # {} THEN {superclass(m)} ELSE {})
  ELSE IF m = superclass("Admin") /\ DOMAIN classMeta[m] # {} /\ sharedProperties
    THEN {"Admin"}
  ELSE {}

\* whether the subclass's record holds its superclass's properties object once a
\* model decorator on m has kept the object it read
sharedAfter(m) == IF m = "Admin" THEN sharers(m) # {} ELSE sharedProperties

\* properties[propertyKey] = ... assigns into the object in place: every record
\* that holds the object shows the assignment
assigned(meta, m, properties) ==
  [c \in DOMAIN meta |->
     IF c \in sharers(m) THEN Put(meta[c], "properties", properties) ELSE meta[c]]

ApiProperty(m, propertyKey, propertyType, metadata) ==
  LET existingMetadata == classMetadata(m)
      properties == OMPut(GetOr(existingMetadata, "properties", <<>>), propertyKey,
                          propertySchema(propertyType, metadata))
      updatedMetadata == Spread(existingMetadata,
                                [type |-> "object", properties |-> properties])
  IN  /\ Annotate
      /\ classMeta' = [assigned(classMeta, m, properties) EXCEPT ![m] = updatedMetadata]
      /\ protoMeta' = [assigned(protoMeta, m, properties) EXCEPT ![m] = updatedMetadata]
      /\ registry' = IF propertyType = Ctor("Array") THEN registry
                     ELSE registerType(registry, propertyType)
      /\ sharedProperties' = sharedAfter(m)
      /\ UNCHANGED <<methodMeta, framework, explorer, aliased, applied, service, app>>

\* an ApiModel that starts the record afresh, without the properties recorded so far
ApiModel_DropsProperties(m, metadata) ==
  LET updatedMetadata == Spread(metadata, [type |-> "object", properties |-> <<>>])
  IN  /\ Annotate
      /\ classMeta' = [classMeta EXCEPT ![m] = updatedMetadata]
      /\ protoMeta' = [protoMeta EXCEPT ![m] = updatedMetadata]
      /\ registry' = registrySet(registry, m)
      /\ sharedProperties' = sharedAfter(m)
      /\ UNCHANGED <<methodMeta, framework, explorer, aliased, applied, service, app>>

ApiModel(m, metadata) ==
  LET existingMetadata == classMetadata(m)
      updatedMetadata ==
        Spread(metadata, [type |-> "object",
                          properties |-> GetOr(existingMetadata, "properties", <<>>)])
  IN  /\ Annotate
      /\ classMeta' = [classMeta EXCEPT ![m] = updatedMetadata]
      /\ protoMeta' = [protoMeta EXCEPT ![m] = updatedMetadata]
      /\ registry' = registrySet(registry, m)
      /\ sharedProperties' = sharedAfter(m)
      /\ UNCHANGED <<methodMeta, framework, explorer, aliased, applied, service, app>>

-----------------------------------------------------------------------------
(* SwaggerExplorer: schemas. The operators thread this.schemas through the *)
(* calls; depth is the number of resolveReference frames on the stack, and *)
(* a call chain deeper than MaxCallDepth is the engine's stack overflow    *)
(* (RangeError), which aborts explore.                                     *)

modelSchema(metadata, properties) ==
  Spread(Spread([type |-> "object"], metadata), [properties |-> properties])

RECURSIVE transformFrom(_, _, _, _)
RECURSIVE resolveReference(_, _, _)

\* a resolveReference that builds an entry whether or not the name is registered
resolveReference_NoRegistryCheck(sch, ref, depth) ==
  IF ~Has(ref, "ref") THEN [schemas |-> sch, overflow |-> FALSE]
  ELSE LET refName == refNameOf(ref)
       IN  IF Has(sch, refName)
             THEN [schemas |-> sch, overflow |-> FALSE]
           ELSE IF depth >= MaxCallDepth
             THEN [schemas |-> sch, overflow |-> TRUE]
           ELSE LET metadata == classMetadata(refName)
                    r == transformFrom(sch, GetOr(metadata, "properties", <<>>), 1,
                                       depth + 1)
                IN  IF r.overflow THEN r
                    ELSE [schemas |-> Put(r.schemas, refName,
                                          modelSchema(metadata, r.value)),
                          overflow |-> FALSE]

\* the body of resolveReference: the schemas it leaves, and whether it overflowed
resolveReference(sch, ref, depth) ==
  IF ~Has(ref, "ref") THEN [schemas |-> sch, overflow |-> FALSE]
  ELSE LET refName == refNameOf(ref)
       IN  IF Has(sch, refName) \/ ~registryHas(registry, refName)
             THEN [schemas |-> sch, overflow |-> FALSE]
           ELSE IF depth >= MaxCallDepth
             THEN [schemas |-> sch, overflow |-> TRUE]
           ELSE LET metadata == classMetadata(refName)
                    r == transformFrom(sch, GetOr(metadata, "properties", <<>>), 1,
                                       depth + 1)
                IN  IF r.overflow THEN r
                    ELSE [schemas |-> Put(r.schemas, refName,
                                          modelSchema(metadata, r.value)),
                          overflow |-> FALSE]

\* the loop of transformProperties from entry i on: the transformed entries, the
\* schemas it leaves, and whether it overflowed
transformFrom(sch, properties, i, depth) ==
  IF i > Len(properties) THEN [schemas |-> sch, value |-> <<>>, overflow |-> FALSE]
  ELSE LET key == properties[i][1]
           prop == properties[i][2]
           r == IF Has(prop, "items") THEN resolveReference(sch, prop.items, depth)
                ELSE [schemas |-> sch, overflow |-> FALSE]
       IN  IF r.overflow THEN [schemas |-> r.schemas, value |-> <<>>, overflow |-> TRUE]
           ELSE LET rest == transformFrom(r.schemas, properties, i + 1, depth)
                    entry == IF Has(prop, "items")
                               THEN <<key, Spread(prop, [items |-> prop.items])>>
                               ELSE <<key, prop>>
                IN  [schemas |-> rest.schemas, value |-> <<entry>> \o rest.value,
                     overflow |-> rest.overflow]

transformProperties(sch, properties, depth) == transformFrom(sch, properties, 1, depth)

RECURSIVE collectFrom(_, _)
\* the loop of collectGlobalSchemas from registry entry i on
collectFrom(sch, i) ==
  IF i > Len(registry) THEN [schemas |-> sch, overflow |-> FALSE]
  ELSE LET name == registry[i]
           metadata == classMetadata(name)
       IN  IF ~Has(metadata, "properties") THEN collectFrom(sch, i + 1)
           ELSE LET r == transformProperties(sch, metadata.properties, 0)
                IN  IF r.overflow THEN [schemas |-> r.schemas, overflow |-> TRUE]
                    ELSE collectFrom(Put(r.schemas, name, modelSchema(metadata, r.value)),
                                     i + 1)

collectGlobalSchemas(sch) == collectFrom(sch, 1)

-----------------------------------------------------------------------------
(* SwaggerExplorer: paths. *)

\* httpMethod.toLowerCase()
toLowerCase(httpMethod) ==
  CASE httpMethod \in {"GET", "get"} -> "get"
    [] httpMethod \in {"PUT", "put"} -> "put"
    [] httpMethod \in {"POST", "post"} -> "post"
    [] httpMethod \in {"DELETE", "delete"} -> "delete"
    [] httpMethod \in {"OPTIONS", "options"} -> "options"
    [] httpMethod \in {"HEAD", "head"} -> "head"
    [] httpMethod \in {"PATCH", "patch"} -> "patch"
    [] httpMethod \in {"TRACE", "trace"} -> "trace"

getControllerTags(controller) == GetOr(classMetadata(controller), "tags", <<>>)

defaultResponses == [k \in {"200"} |-> [description |-> "Success"]]

\* the operation object literal of exploreController
operationOf(controllerTags, swaggerMetadata, path) ==
  LET tagged == [tags |-> controllerTags \o GetOr(swaggerMetadata, "tags", <<>>)]
      spread == Spread(tagged, GetOr(swaggerMetadata, "operation", EmptyObj))
      withParameters ==
        Put(spread, "parameters",
            extractPathParameters(path) \o GetOr(swaggerMetadata, "parameters", <<>>))
      withBody ==
        IF Has(swaggerMetadata, "requestBody")
          THEN Put(withParameters, "requestBody", swaggerMetadata.requestBody)
          ELSE Without(withParameters, "requestBody")
  IN  Put(withBody, "responses", GetOr(swaggerMetadata, "responses", defaultResponses))

\* a setOperation that keeps the operation already stored under the key
setOperation_KeepsFirst(p, path, methodKey, operation) ==
  IF Has(GetOr(p, path, EmptyObj), methodKey) THEN p
  ELSE Put(p, path, Put(GetOr(p, path, EmptyObj), methodKey, operation))

\* this.paths[fullPath][methodKey] = operation
setOperation(p, path, methodKey, operation) ==
  Put(p, path, Put(GetOr(p, path, EmptyObj), methodKey, operation))

RECURSIVE exploreMethods(_, _, _)
\* the loop of exploreController over the handlers from index i on
exploreMethods(p, controller, i) ==
  IF i > Len(HandlersOf(controller)) THEN p
  ELSE LET t == <<controller, HandlersOf(controller)[i]>>
           routeMetadata == routes[t]
       IN  IF routeMetadata = EmptyObj THEN exploreMethods(p, controller, i + 1)
           ELSE LET path == fullPath(ctrlBase[controller], routeMetadata.path)
                    operation == operationOf(getControllerTags(controller),
                                             methodMeta[t], path)
                IN  exploreMethods(
                      setOperation(p, path, toLowerCase(routeMetadata.method), operation),
                      controller, i + 1)

exploreController(p, controller) == exploreMethods(p, controller, 1)

RECURSIVE exploreControllers(_, _, _)
exploreControllers(p, controllers, i) ==
  IF i > Len(controllers) THEN p
  ELSE exploreControllers(exploreController(p, controllers[i]), controllers, i + 1)

\* an explore loop that visits the first module of the list only
exploreModules_FirstOnly(p, modules, i) ==
  IF i > Len(modules) \/ i > 1 THEN p
  ELSE LET metadata == moduleMetadata(modules[i])
       IN  IF Has(metadata, "controllers")
             THEN exploreControllers(p, metadata.controllers, 1)
             ELSE p

RECURSIVE exploreModules(_, _, _)
\* the loop of explore over the modules from index i on
exploreModules(p, modules, i) ==
  IF i > Len(modules) THEN p
  ELSE LET metadata == moduleMetadata(modules[i])
       IN  exploreModules(
             IF Has(metadata, "controllers")
               THEN exploreControllers(p, metadata.controllers, 1)
               ELSE p,
             modules, i + 1)

\* an explore that does not reset its accumulators
resetAccumulators_Keep(acc) == acc

\* this.paths = {}; this.schemas = {}
resetAccumulators(acc) == [paths |-> EmptyObj, schemas |-> EmptyObj]

\* an explore that collects the registry's schemas once per module, inside the loop
explore_CollectsPerModule(acc, modules) ==
  LET fresh == resetAccumulators(acc)
      collected == IF modules = <<>> THEN [schemas |-> fresh.schemas, overflow |-> FALSE]
                   ELSE collectGlobalSchemas(fresh.schemas)
  IN  IF collected.overflow
        THEN [status |-> "error", paths |-> fresh.paths, schemas |-> collected.schemas]
        ELSE [status |-> "ok", paths |-> exploreModules(fresh.paths, modules, 1),
              schemas |-> collected.schemas]

\* explore(modules) on an explorer whose fields are acc: the fields it leaves and
\* whether it returned ("ok") or threw the stack overflow ("error")
explore(acc, modules) ==
  LET fresh == resetAccumulators(acc)
      collected == collectGlobalSchemas(fresh.schemas)
  IN  IF collected.overflow
        THEN [status |-> "error", paths |-> fresh.paths, schemas |-> collected.schemas]
        ELSE [status |-> "ok", paths |-> exploreModules(fresh.paths, modules, 1),
              schemas |-> collected.schemas]

NoCall == [n |-> 0]

\* an explore that drains the registry it has collected from
Explore_DrainsRegistry(modules) ==
  /\ nExplores < MaxExplores
  /\ nExplores' = nExplores + 1
  /\ LET r == explore([paths |-> paths, schemas |-> schemas], modules)
     IN  /\ paths' = r.paths
         /\ schemas' = r.schemas
         /\ prevCall' = lastCall
         /\ lastCall' = [n |-> nExplores + 1, modules |-> modules, status |-> r.status,
                         store |-> store, paths |-> r.paths, schemas |-> r.schemas]
  /\ registry' = <<>>
  /\ UNCHANGED <<classMeta, protoMeta, methodMeta, framework, nAnnotations,
                 aliased, applied, service, app, sharedProperties>>

\* explorer.explore(modules): the explorer reads the store and writes its own fields
Explore(modules) ==
  /\ nExplores < MaxExplores
  /\ nExplores' = nExplores + 1
  /\ LET r == explore([paths |-> paths, schemas |-> schemas], modules)
     IN  /\ paths' = r.paths
         /\ schemas' = r.schemas
         /\ prevCall' = lastCall
         /\ lastCall' = [n |-> nExplores + 1, modules |-> modules, status |-> r.status,
                         store |-> store, paths |-> r.paths, schemas |-> r.schemas]
  /\ UNCHANGED <<store, framework, nAnnotations, aliased, applied, service, app, sharedProperties>>

-----------------------------------------------------------------------------
(* SwaggerService and setupSwagger. The service is given as the record of  *)
(* its fields; a setup runs on the record st of everything it can change   *)
(* and leaves in st.steps the calls that completed, in st.status whether   *)
(* it returned ("ok") or threw ("error").                                  *)

\* a new SwaggerService: getPaths() is {} and getComponents() is { schemas: {} }
NewGenerated == [paths |-> EmptyObj, components |-> [schemas |-> EmptyObj]]

getPaths(st) == st.generated.paths

getComponents(st) == st.generated.components

Completed(st, step) == [st EXCEPT !.steps = Append(@, step)]

Thrown(st) == [st EXCEPT !.status = "error"]

\* app.registerModule(SwaggerModule)
registerModule(st) ==
  Completed([st EXCEPT !.appModules = Append(@, "SwaggerModule")], "registerModule")

\* setConfig throws for a configuration without path or without document
configAccepted(cfg) == Has(cfg, "path") /\ Has(cfg, "document")

setConfig(st, cfg) ==
  IF configAccepted(cfg)
    THEN Completed([st EXCEPT !.config = cfg], "setConfig")
    ELSE Thrown(st)

\* the element of a one-element set: a value computed once and then named
Only(S) == CHOOSE x \in S : TRUE

\* generateDocument keeps what explore returns
generateDocument(st, modules) ==
  Only({IF r.status = "ok"
          THEN Completed([st EXCEPT !.paths = r.paths, !.schemas = r.schemas,
                                    !.generated = [paths |-> r.paths,
                                                   components |-> [schemas |-> r.schemas]]],
                         "generateDocument")
          ELSE Thrown([st EXCEPT !.paths = r.paths, !.schemas = r.schemas])
        : r \in {explore([paths |-> st.paths, schemas |-> st.schemas], modules)}})

\* the structural validation of setDocument
validDocument(doc) ==
  /\ Has(doc, "paths")
  /\ Has(doc, "info")
  /\ Has(doc.info, "title")
  /\ Has(doc.info, "version")

setDocument(st, doc) ==
  IF validDocument(doc)
    THEN Completed([st EXCEPT !.document = doc], "setDocument")
    ELSE Thrown(st)

\* a setup that sets the base document as it was given
completeDocument_BaseOnly(base, explored, components) == base

\* { ...config.document, paths: getPaths(), components: { ...config.document.components,
\*   ...getComponents() } }
completeDocument(base, explored, components) ==
  Spread(base,
         [paths |-> explored,
          components |-> Spread(GetOr(base, "components", EmptyObj), components)])

DOCS == <<"docs">>

\* `${path}/swagger.json`
jsonRoute(path) == path \o <<"/swagger.json">>

\* app.get(`${path}/swagger.json`, ...); app.get(path, ...)
registerRoutes(st, cfg) ==
  LET path == GetOr(cfg, "path", DOCS)
  IN  Completed([st EXCEPT !.appRoutes = @ \o <<jsonRoute(path), path>>], "get")

\* a call made only if the calls before it returned
IfOk(st, next) == IF st.status = "ok" THEN next ELSE st

\* const completeDocument = {...}; swaggerService.setDocument(completeDocument)
setComplete(st, cfg) ==
  setDocument(st, completeDocument(cfg.document, getPaths(st), getComponents(st)))

\* a setup that registers the routes before it configures the service
setupSwagger_RoutesFirst(st, cfg, modules) ==
  Only({IfOk(generated_, setComplete(generated_, cfg))
        : generated_ \in {IfOk(configured, generateDocument(configured, modules))
                          : configured \in {setConfig(registerRoutes(registerModule(st), cfg),
                                                      cfg)}}})

setupSwagger(st, cfg, modules) ==
  Only({IfOk(set, registerRoutes(set, cfg))
        : set \in {IfOk(generated_, setComplete(generated_, cfg))
                   : generated_ \in {IfOk(configured, generateDocument(configured, modules))
                                     : configured \in {setConfig(registerModule(st), cfg)}}}})

NoSetup == [n |-> 0, status |-> "none", steps |-> <<>>]

\* everything a setup can change, before it runs
Before ==
  [status |-> "ok", steps |-> <<>>, config |-> config, document |-> document,
   generated |-> generated, paths |-> paths, schemas |-> schemas,
   appModules |-> appModules, appRoutes |-> appRoutes]

After(st) ==
  /\ config' = st.config
  /\ document' = st.document
  /\ generated' = st.generated
  /\ paths' = st.paths
  /\ schemas' = st.schemas
  /\ appModules' = st.appModules
  /\ appRoutes' = st.appRoutes

SetupSwagger(cfg, modules) ==
  /\ nSetups < MaxSetups
  /\ nSetups' = nSetups + 1
  /\ \E st \in {setupSwagger(Before, cfg, modules)} :
         /\ After(st)
         /\ lastSetup' = [n |-> nSetups + 1, call |-> "setupSwagger", status |-> st.status,
                          steps |-> st.steps, config |-> cfg, modules |-> modules,
                          given |-> GetOr(cfg, "document", EmptyObj),
                          store |-> store, routesBefore |-> appRoutes,
                          documentBefore |-> document]
  /\ UNCHANGED <<store, framework, lastCall, prevCall, nExplores, nAnnotations,
                 aliased, applied, sharedProperties>>

\* service.setDocument(doc) called on its own
SetDocument(doc) ==
  /\ nSetups < MaxSetups
  /\ nSetups' = nSetups + 1
  /\ \E st \in {setDocument(Before, doc)} :
         /\ After(st)
         /\ lastSetup' = [n |-> nSetups + 1, call |-> "setDocument", status |-> st.status,
                          steps |-> st.steps, given |-> doc,
                          routesBefore |-> appRoutes, documentBefore |-> document]
  /\ UNCHANGED <<store, framework, lastCall, prevCall, nExplores, nAnnotations,
                 aliased, applied, sharedProperties>>

-----------------------------------------------------------------------------
(* Inputs. *)

S_users == <<"u", "s", "e", "r", "s">>
S_orgs_org == <<"o", "r", "g", "s", "/", ":", "o", "r", "g">>
S_id == <<"i", "d">>
S_colon_id == <<":", "i", "d">>
S_q == <<"q">>

\* the literals of the path-normalization property, and two with a variable
PathLiterals ==
  {<<>>, <<"/">>, <<"a">>, <<"/", "a", "/">>, <<"a", "/", "b">>,
   S_colon_id, <<"/", ":", "i", "d", "/">>}

ModuleLists == {<<>>, <<"UsersModule">>, <<"OrgsModule", "AppModule">>}

OperationInputs ==
  {[summary |-> "Find"],
   [summary |-> "Find", tags |-> <<"Op">>,
    responses |-> [k \in {"404"} |-> [description |-> "Not found"]]]}

ParamInputs == {[name |-> S_id], [name |-> S_id, required |-> TRUE]}

QueryInputs == {[name |-> S_q]}

\* <<statusCode, options, design:returntype>>
ResponseInputs ==
  {<<"200", [type |-> Ctor("User")], NoType>>,
   <<"404", [description |-> "Not found"], Ctor("Post")>>}

\* <<options, design:paramtypes[0]>>
BodyInputs == {<<[description |-> "A user"], Ctor("User")>>}

ModelInputs == {[description |-> "A model"]}

S_x_key == <<"x", "-", "k", "e", "y">>
S_sid == <<"s", "i", "d">>

HeaderInputs == {[name |-> S_x_key, required |-> TRUE]}

CookieInputs == {[name |-> S_sid]}

SchemeOptions == {EmptyObj, [description |-> "Basic Auth"]}

FlowInputs ==
  {[implicit |-> [authorizationUrl |-> "https://example.com/auth",
                  scopes |-> [read |-> "Read access"]]]}

\* <<name, scopes>>
SecurityInputs == {<<"apiKey", <<>>>>, <<"basicAuth", <<"read">>>>}

API_DOCS == <<"/api-docs">>

S_legacy == <<"/", "l">>

S_orgs_org_id == <<"/", "o", "r", "g", "s", "/", ":", "o", "r", "g", "/", ":", "i", "d">>

Info == [title |-> "Test", version |-> "1.0"]

MinimalDocument == [openapi |-> "3.0.0", info |-> Info]

\* a base document with paths and components of its own: a path and a schema the
\* explorer does not produce, a path it produces, a security scheme
FullDocument ==
  [openapi |-> "3.0.0",
   info |-> Info,
   paths |-> [k \in {S_legacy, S_orgs_org_id} |-> [get |-> [summary |-> "Base"]]],
   components |-> [schemas |-> [Legacy |-> [type |-> "object"]],
                   securitySchemes |-> [apiKey |-> [type |-> "apiKey"]]]]

ConfigInputs ==
  {[path |-> API_DOCS, document |-> MinimalDocument],
   [document |-> MinimalDocument],
   [path |-> API_DOCS, document |-> FullDocument],
   [path |-> API_DOCS, document |-> [openapi |-> "3.0.0", info |-> [title |-> "Test"]]],
   [path |-> API_DOCS]}

DocumentInputs ==
  {EmptyObj,
   FullDocument,
   [openapi |-> "3.0.0", info |-> Info, paths |-> EmptyObj],
   [openapi |-> "3.0.0", info |-> [version |-> "1.0"], paths |-> EmptyObj],
   [openapi |-> "3.0.0", paths |-> EmptyObj]}

SetupModuleLists == {<<>>, <<"OrgsModule">>}

\* <<propertyKey, design:type, metadata>>
PropertyInputs ==
  {<<"id", Ctor("String"), EmptyObj>>,
   <<"owner", Ctor("User"), EmptyObj>>,
   <<"list", Ctor("Array"), [items |-> RefTo("User")]>>}

-----------------------------------------------------------------------------
(* Specifications. *)

Classes == Controllers \cup ModelClasses

InitStore ==
  /\ classMeta = [c \in Classes |-> EmptyObj]
  /\ protoMeta = [c \in Classes |-> EmptyObj]
  /\ methodMeta = [t \in Endpoints |-> EmptyObj]
  /\ registry = <<>>
  /\ nAnnotations = 0

InitApplied ==
  /\ aliased = FALSE
  /\ sharedProperties = FALSE
  /\ securityApplied = [kind \in {"class", "method"} |-> <<>>]
  /\ parametersApplied = <<>>

InitService ==
  /\ config = EmptyObj
  /\ document = EmptyObj
  /\ generated = NewGenerated
  /\ appModules = <<>>
  /\ appRoutes = <<>>
  /\ lastSetup = NoSetup
  /\ nSetups = 0

InitExplorer ==
  /\ paths = EmptyObj
  /\ schemas = EmptyObj
  /\ lastCall = NoCall
  /\ prevCall = NoCall
  /\ nExplores = 0

Route(path, method) == [path |-> path, method |-> method]

\* two controllers under modules, every handler routed
Init ==
  /\ InitStore
  /\ InitApplied
  /\ InitExplorer
  /\ InitService
  /\ ctrlBase = [c \in Controllers |->
                   IF c = "UsersController" THEN S_users ELSE S_orgs_org]
  /\ routes = [t \in Endpoints |->
                 IF t[2] = "find" THEN Route(S_colon_id, "GET") ELSE Route(<<>>, "GET")]

\* the handler the decorators of the model are applied to
Annotated == <<"OrgsController", "find">>

EndpointDecorator ==
  LET t == Annotated IN
    \/ \E metadata \in OperationInputs : ApiOperation(t, metadata)
    \/ ApiTagsMethod(t, <<"Users">>)
    \/ \E param \in ParamInputs : ApiParam(t, param)
    \/ \E param \in QueryInputs : ApiQuery(t, param)
    \/ \E in \in BodyInputs : ApiBody(t, in[1], in[2])
    \/ \E in \in ResponseInputs : ApiResponse(t, in[1], in[2], in[3])

ControllerDecorator == \E c \in Controllers : ApiTagsClass(c, <<"Admin">>)

ModelDecorator ==
  \E m \in Models :
    \/ \E metadata \in ModelInputs : ApiModel(m, metadata)
    \/ \E in \in PropertyInputs : ApiProperty(m, in[1], in[2], in[3])

Exploration == \E modules \in ModuleLists : Explore(modules)

Next == EndpointDecorator \/ ControllerDecorator \/ Exploration

Spec == Init /\ [][Next]_vars

\* model classes annotated, one handler that may reference them
InitModels ==
  /\ InitStore
  /\ InitApplied
  /\ InitExplorer
  /\ InitService
  /\ ctrlBase = [c \in Controllers |-> S_users]
  /\ routes = [t \in Endpoints |->
                 IF t = Annotated THEN Route(S_colon_id, "GET") ELSE EmptyObj]

ReferenceDecorator ==
  \/ \E in \in ResponseInputs : ApiResponse(Annotated, in[1], in[2], in[3])
  \/ \E in \in BodyInputs : ApiBody(Annotated, in[1], in[2])

NextModels == ModelDecorator \/ ReferenceDecorator \/ Exploration

SpecModels == InitModels /\ [][NextModels]_vars

\* one routed handler, its base path and route path drawn from the literals
InitPaths ==
  /\ InitStore
  /\ InitApplied
  /\ InitExplorer
  /\ InitService
  /\ \E base \in PathLiterals :
       ctrlBase = [c \in Controllers |-> base]
  /\ \E path \in PathLiterals, method \in {"GET", "POST"} :
       routes = [t \in Endpoints |->
                   IF t = <<"UsersController", "find">> THEN Route(path, method)
                   ELSE EmptyObj]

NextPaths == Exploration

SpecPaths == InitPaths /\ [][NextPaths]_vars

\* the targets of the security decorators: the handler's controller and the handler
SecurityTargets == {<<"class", Annotated[1]>>, <<"method", Annotated>>}

SecurityDecorator ==
  \E target \in SecurityTargets :
    \/ \E options \in SchemeOptions : ApiBasicAuth(target, options)
    \/ \E options \in SchemeOptions : ApiBearerAuth(target, options)
    \/ \E flows \in FlowInputs : ApiOAuth2(target, flows)
    \/ \E in \in SecurityInputs : ApiSecurity(target, in[1], in[2])

ParameterDecorator ==
  LET t == Annotated IN
    \/ \E param \in ParamInputs : ApiParam(t, param)
    \/ \E param \in QueryInputs : ApiQuery(t, param)
    \/ \E options \in HeaderInputs : ApiHeader(t, options)
    \/ \E options \in CookieInputs : ApiCookieParam(t, options)

NextAnnotations == SecurityDecorator \/ ParameterDecorator

\* the decorators that record security and parameters, on one handler and its class
SpecAnnotations == Init /\ [][NextAnnotations]_vars

SchemeDecorator ==
  \/ ApiBasicAuth(<<"class", Annotated[1]>>, [description |-> "Basic Auth"])
  \/ ApiBearerAuth(<<"method", Annotated>>, EmptyObj)

Setup == \E cfg \in ConfigInputs, modules \in SetupModuleLists : SetupSwagger(cfg, modules)

Validation == \E doc \in DocumentInputs : SetDocument(doc)

NextAssembly == SchemeDecorator \/ Setup \/ Validation

\* setups of the application and documents set on the service, after scheme decorators
SpecAssembly == Init /\ [][NextAssembly]_vars

\* <<statusCode, options, design:returntype>>: two responses for one status code
RepeatedResponses ==
  {<<"200", [description |-> "Found"], Ctor("User")>>,
   <<"200", [type |-> Ctor("Post")], NoType>>}

\* <<propertyKey, design:type, metadata>>: two annotations of one property name
RepeatedProperties ==
  {<<"id", Ctor("String"), [description |-> "Identifier"]>>,
   <<"id", Ctor("Number"), EmptyObj>>}

RepeatedDecorator ==
  \/ \E in \in RepeatedResponses : ApiResponse(Annotated, in[1], in[2], in[3])
  \/ \E in \in RepeatedProperties : ApiProperty("User", in[1], in[2], in[3])

HeaderDecorator ==
  \/ \E options \in HeaderInputs : ApiHeader(Annotated, options)
  \/ \E options \in CookieInputs : ApiCookieParam(Annotated, options)

NextMerge ==
  \/ EndpointDecorator
  \/ ControllerDecorator
  \/ SecurityDecorator
  \/ HeaderDecorator
  \/ RepeatedDecorator

\* every decorator of a handler and its class, and repeated map keys
SpecMerge == Init /\ [][NextMerge]_vars

\* two model-level annotations with different fields
RepeatedModels == {[description |-> "A model"], [title |-> "Account"]}

RecordDecorator ==
  \E m \in Models :
    \/ \E metadata \in RepeatedModels : ApiModel(m, metadata)
    \/ \E in \in PropertyInputs \cup RepeatedProperties :
         ApiProperty(m, in[1], in[2], in[3])

\* model-level and property-level annotations on the model classes, in any order
SpecRecord == Init /\ [][RecordDecorator]_vars

\* every handler routed to the same full path and method
InitConflict ==
  /\ InitStore
  /\ InitApplied
  /\ InitExplorer
  /\ InitService
  /\ ctrlBase = [c \in Controllers |-> S_users]
  /\ routes = [t \in Endpoints |-> Route(S_colon_id, "GET")]

\* module lists that visit the two controllers in either order
OrderedModuleLists ==
  {<<"UsersModule", "OrgsModule">>, <<"OrgsModule", "UsersModule">>, <<"AppModule">>}

OperationDecorator == \E metadata \in OperationInputs : ApiOperation(Annotated, metadata)

ExplorationInOrder == \E modules \in OrderedModuleLists : Explore(modules)

NextConflict == OperationDecorator \/ ControllerDecorator \/ ExplorationInOrder

\* explore over handlers that share one path and method
SpecConflict == InitConflict /\ [][NextConflict]_vars

\* one routed handler per controller, under different base paths
InitOrder ==
  /\ InitStore
  /\ InitApplied
  /\ InitExplorer
  /\ InitService
  /\ ctrlBase = [c \in Controllers |-> IF c = "UsersController" THEN S_id ELSE S_q]
  /\ routes = [t \in Endpoints |->
                 IF t[2] = "find" THEN Route(<<>>, "GET") ELSE EmptyObj]

NextOrder == ModelDecorator \/ ExplorationInOrder

\* models registered in either order, controllers visited in either order, no two
\* handlers under one path and method
SpecOrder == InitOrder /\ [][NextOrder]_vars

InheritanceDecorator ==
  \E m \in ModelClasses :
    \/ \E metadata \in ModelInputs : ApiModel(m, metadata)
    \/ \E in \in PropertyInputs : ApiProperty(m, in[1], in[2], in[3])

\* model decorators on a class, on the class that extends it and on a third class
SpecInheritance == Init /\ [][InheritanceDecorator]_vars

-----------------------------------------------------------------------------
(* What the properties below speak about. *)

\* the controllers explore visits for a module list
ControllersOf(modules) ==
  UNION {{metadata.controllers[i] : i \in 1..Len(metadata.controllers)} :
           metadata \in {moduleMetadata(modules[j]) : j \in 1..Len(modules)}}

\* the routed handlers explore visits for a module list
ExploredEndpoints(modules) ==
  {t \in Endpoints : t[1] \in ControllersOf(modules) /\ routes[t] # EmptyObj}

PathOf(t) == fullPath(ctrlBase[t[1]], routes[t].path)

\* the latest explore call returned, and the store is still the one it read
Settled == lastCall.n > 0 /\ lastCall.status = "ok" /\ lastCall.store = store

\* every operation of a paths map, as <<path, method key, operation>>
OperationsOf(p) == UNION {{<<k, mk, p[k][mk]>> : mk \in DOMAIN p[k]} : k \in DOMAIN p}

RECURSIVE SegmentsFrom(_, _)
\* the segments of a path between its '/' characters; cur is the segment being read
SegmentsFrom(s, cur) ==
  IF s = <<>> THEN {cur}
  ELSE IF Head(s) = SLASH THEN {cur} \cup SegmentsFrom(Tail(s), <<>>)
  ELSE SegmentsFrom(Tail(s), Append(cur, Head(s)))

\* the names of the ':name' segments of a path
PathVariables(path) ==
  {Tail(seg) : seg \in {x \in SegmentsFrom(path, <<>>) : Len(x) >= 2 /\ x[1] = COLON}}

-----------------------------------------------------------------------------
(* Properties. *)

\* C1: two successive explore calls with the same module list and an unchanged
\* store return equal paths and schemas, and nothing a previous call produced
\* accumulates: the paths returned are those of the handlers of this call's
\* modules, the schemas returned are of names registered at the call.
C1_ExploreIdempotent ==
  /\ (/\ lastCall.n >= 2
      /\ prevCall.status = "ok" /\ lastCall.status = "ok"
      /\ prevCall.modules = lastCall.modules
      /\ prevCall.store = lastCall.store)
     => (lastCall.paths = prevCall.paths /\ lastCall.schemas = prevCall.schemas)
  /\ (lastCall.n >= 1 /\ lastCall.status = "ok")
     => /\ DOMAIN lastCall.paths = {PathOf(t) : t \in ExploredEndpoints(lastCall.modules)}
        /\ \A name \in DOMAIN lastCall.schemas : registryHas(lastCall.store[4], name)

\* a second call after a first one that produced paths, on an annotated store
C1_Witness ==
  /\ lastCall.n >= 2
  /\ prevCall.status = "ok" /\ lastCall.status = "ok"
  /\ prevCall.modules = lastCall.modules
  /\ prevCall.store = lastCall.store
  /\ nAnnotations > 0
  /\ lastCall.paths # EmptyObj

\* C4: every full path key written into paths starts with exactly one '/' and
\* does not end with '/' unless it is the root path "/".
C4_PathNormalized ==
  \A k \in DOMAIN paths :
    /\ Len(k) >= 1 /\ k[1] = SLASH
    /\ Len(k) >= 2 => k[2] # SLASH
    /\ k[Len(k)] = SLASH => k = <<SLASH>>

\* a key written for a base path and a route path that both carry slashes at
\* both ends
C4_Witness ==
  /\ paths # EmptyObj
  /\ ctrlBase["UsersController"] = <<"/", "a", "/">>
  /\ routes[<<"UsersController", "find">>].path = <<"/", "a", "/">>

\* C6: for every ':name' variable of an operation's full path, from the base path
\* or from the route path, the operation's parameters hold an entry with that
\* name, in = "path" and required = true.
C6_PathVariablesDeclared ==
  \A o \in OperationsOf(paths) :
    \A name \in PathVariables(o[1]) :
      \E i \in 1..Len(o[3].parameters) :
        LET param == o[3].parameters[i]
        IN  /\ param.name = name
            /\ param.in = "path"
            /\ Has(param, "required") /\ param.required = TRUE

\* an operation whose path takes one variable from the base path and one from
\* the route path
C6_Witness ==
  \E o \in OperationsOf(paths) :
    /\ PathVariables(o[1]) = {<<"o", "r", "g">>, S_id}
    /\ Len(o[3].parameters) >= 2

\* the operation the latest call returned for a handler
OperationAt(t) == lastCall.paths[PathOf(t)][toLowerCase(routes[t].method)]

\* what ApiOperation recorded for a handler
OperationMetadata(t) == GetOr(methodMeta[t], "operation", EmptyObj)

\* the model names a schema refers to, directly or as the items of an array
RefTargets(schema) ==
  IF Has(schema, "ref") THEN {refNameOf(schema)}
  ELSE IF Has(schema, "items") /\ Has(schema.items, "ref") THEN {refNameOf(schema.items)}
  ELSE {}

ContentRefs(body) ==
  IF Has(body, "content")
    THEN UNION {RefTargets(body.content[mt].schema) : mt \in DOMAIN body.content}
    ELSE {}

\* the model names the request body and the responses of a handler refer to
EndpointRefs(t) ==
  LET responses == GetOr(methodMeta[t], "responses", EmptyObj)
  IN  ContentRefs(GetOr(methodMeta[t], "requestBody", EmptyObj)) \cup
      UNION {ContentRefs(responses[code]) : code \in DOMAIN responses}

DeclaredProperties(m) == GetOr(classMeta[m], "properties", <<>>)

PropertyRefs(m) ==
  UNION {RefTargets(DeclaredProperties(m)[i][2]) : i \in 1..Len(DeclaredProperties(m))}

KeySet(m) == {m[i][1] : i \in 1..Len(m)}

\* referenced by an explored handler, or by a property of another model that an
\* explored handler references
Referenced(m) ==
  \E t \in ExploredEndpoints(lastCall.modules) :
    \/ m \in EndpointRefs(t)
    \/ \E n \in (Models \ {m}) \cap EndpointRefs(t) : m \in PropertyRefs(n)

\* C2: a model with at least one annotated property that an explored handler
\* references (request body, response, or nested through a property of another
\* model) has an entry in the returned schemas that holds every declared property.
C2_ReferenceCompletion ==
  Settled =>
    \A m \in Models :
      (DeclaredProperties(m) # <<>> /\ Referenced(m))
        => /\ Has(lastCall.schemas, m)
           /\ KeySet(DeclaredProperties(m)) \subseteq KeySet(lastCall.schemas[m].properties)

\* C3: every explore call returns, whatever the registry holds: reference
\* resolution never recurses without bound.
C3_ExploreTerminates == lastCall.n > 0 => lastCall.status = "ok"

\* the readings of "the endpoint's own tags": those of ApiTags, those given to
\* ApiOperation, or both in either order
OwnTags(t) ==
  LET tags == GetOr(methodMeta[t], "tags", <<>>)
      operationTags == GetOr(OperationMetadata(t), "tags", <<>>)
  IN  {tags, operationTags, tags \o operationTags, operationTags \o tags}

\* C5: the tags of every returned operation are the controller's tags followed by
\* the endpoint's own tags.
C5_TagsGroupThenEndpoint ==
  Settled =>
    \A t \in ExploredEndpoints(lastCall.modules) :
      \E own \in OwnTags(t) :
        OperationAt(t).tags = GetOr(classMeta[t[1]], "tags", <<>>) \o own

PathParameterNames(parameters) ==
  [i \in {j \in 1..Len(parameters) : parameters[j].in = "path"} |-> parameters[i].name]

Injective(f) == \A i, j \in DOMAIN f : f[i] = f[j] => i = j

\* C7: when the path parameters declared by annotations have distinct names, no
\* returned operation holds two parameters with the same name and in = "path":
\* none is derived for a variable that an annotation declared.
C7_NoDuplicatePathParameters ==
  Settled =>
    \A t \in ExploredEndpoints(lastCall.modules) :
      Injective(PathParameterNames(GetOr(methodMeta[t], "parameters", <<>>)))
        => Injective(PathParameterNames(OperationAt(t).parameters))

\* C8: every parameter with in = "path" of a returned operation has
\* required = true.
C8_PathParametersRequired ==
  \A o \in OperationsOf(paths) :
    \A i \in 1..Len(o[3].parameters) :
      o[3].parameters[i].in = "path"
        => Has(o[3].parameters[i], "required") /\ o[3].parameters[i].required = TRUE

\* the responses a handler declared, by ApiResponse and by ApiOperation, merged
\* either way
DeclaredResponses(t) ==
  LET byResponse == GetOr(methodMeta[t], "responses", EmptyObj)
      byOperation == GetOr(OperationMetadata(t), "responses", EmptyObj)
  IN  {Spread(byResponse, byOperation), Spread(byOperation, byResponse)}

\* C9: the responses of a returned operation are the declared ones when the
\* handler declared any, and the single entry 200 "Success" when, and only when,
\* it declared none.
C9_ResponsesDeclaredOrDefault ==
  Settled =>
    \A t \in ExploredEndpoints(lastCall.modules) :
      IF DeclaredResponses(t) = {EmptyObj}
        THEN OperationAt(t).responses = defaultResponses
        ELSE /\ OperationAt(t).responses \in DeclaredResponses(t)
             /\ OperationAt(t).responses # defaultResponses

\* C10: the returned schemas hold an entry for exactly the registered models
\* that declare at least one property.
C10_SeedsModelsWithProperties ==
  Settled =>
    DOMAIN lastCall.schemas =
      {registry[i] : i \in {j \in 1..Len(registry) :
                              GetOr(classMetadata(registry[j]), "properties", <<>>) # <<>>}}

\* C11: an explore call leaves every metadata record and the registry as they were
\* before the call, whether it returns or throws.
C11_ExploreLeavesStore == [][nExplores' # nExplores => store' = store]_vars

\* an explore call that built schemas from a registry with entries
C11_Witness ==
  /\ lastCall.n > 0
  /\ lastCall.schemas # EmptyObj
  /\ registry # <<>>
  /\ store = lastCall.store

\* the latest call was a setupSwagger that returned: document is what it assembled
Assembled == lastSetup.n > 0 /\ lastSetup.call = "setupSwagger" /\ lastSetup.status = "ok"

\* C12: the assembled document's paths are the base document's paths merged with
\* the explored paths: a base path the explorer did not produce keeps its base
\* value, a path the explorer produced holds the explored value.
C12_PathsMergeBaseAndExplored ==
  Assembled =>
    LET base == GetOr(lastSetup.given, "paths", EmptyObj)
        explored == getPaths([generated |-> generated])
    IN  /\ \A k \in DOMAIN explored : Has(document.paths, k) /\ document.paths[k] = explored[k]
        /\ \A k \in (DOMAIN base) \ (DOMAIN explored) :
             Has(document.paths, k) /\ document.paths[k] = base[k]

\* C13: the assembled document's components.schemas are the base document's
\* schemas merged with the explored schemas (explored wins on a name), and every
\* other field of the base document, other component kinds included, is kept.
C13_SchemasMergedBaseKept ==
  Assembled =>
    LET base == lastSetup.given
        baseComponents == GetOr(base, "components", EmptyObj)
        baseSchemas == GetOr(baseComponents, "schemas", EmptyObj)
        explored == getComponents([generated |-> generated]).schemas
    IN  /\ document.components.schemas = Spread(baseSchemas, explored)
        /\ \A kind \in (DOMAIN baseComponents) \ {"schemas"} :
             Has(document.components, kind) /\ document.components[kind] = baseComponents[kind]
        /\ \A field \in (DOMAIN base) \ {"paths", "components"} :
             Has(document, field) /\ document[field] = base[field]

\* paths, info.title and info.version are all present
Structural(doc) ==
  /\ "paths" \in DOMAIN doc
  /\ "info" \in DOMAIN doc
  /\ {"title", "version"} \subseteq DOMAIN doc.info

C15_PathDefaultsToDocs ==
  (/\ lastSetup.n > 0
   /\ lastSetup.call = "setupSwagger"
   /\ "path" \notin DOMAIN lastSetup.config
   /\ "document" \in DOMAIN lastSetup.config
   /\ Structural(Put(lastSetup.given, "paths", EmptyObj)))
    => /\ lastSetup.status = "ok"
       /\ appRoutes = lastSetup.routesBefore \o <<<<"docs", "/swagger.json">>, <<"docs">>>>

IsPrefix(a, b) == Len(a) <= Len(b) /\ a = SubSeq(b, 1, Len(a))

\* C16: a setup registers its two routes only once setConfig, generateDocument and
\* setDocument have returned, in that order; a setup that throws, because the
\* configuration is rejected or the validation fails, registers no route.
C16_RoutesAfterValidation ==
  (lastSetup.n > 0 /\ lastSetup.call = "setupSwagger") =>
    /\ IsPrefix(lastSetup.steps,
                <<"registerModule", "setConfig", "generateDocument", "setDocument", "get">>)
    /\ lastSetup.status = "ok" <=> Len(lastSetup.steps) = 5
    /\ IF lastSetup.status = "ok"
         THEN /\ Len(appRoutes) = Len(lastSetup.routesBefore) + 2
              /\ Structural(document)
              /\ config = lastSetup.config
         ELSE appRoutes = lastSetup.routesBefore

\* a setup that failed at the validation, on an application that had no route
C16_Witness ==
  /\ lastSetup.n > 0
  /\ lastSetup.call = "setupSwagger"
  /\ lastSetup.status = "error"
  /\ lastSetup.steps = <<"registerModule", "setConfig", "generateDocument">>
  /\ appRoutes = <<>>

Last(q) == q[Len(q)]

\* the record a security decorator applied to a target of that kind writes: the
\* class's for a class, the prototype's for a method decorated by a scheme
\* decorator
SchemeRecord(kind) ==
  IF kind = "class" THEN classMeta[Annotated[1]] ELSE protoMeta[Annotated[1]]

\* the scheme definition of a scheme decorator: its fixed fields and what it was given
SchemeOf(given) ==
  CASE given.kind = "ApiBasicAuth" -> Spread([type |-> "http", scheme |-> "basic"], given.options)
    [] given.kind = "ApiBearerAuth" ->
         Spread([type |-> "http", scheme |-> "bearer", bearerFormat |-> "JWT"], given.options)
    [] given.kind = "ApiOAuth2" -> [type |-> "oauth2", flows |-> given.options]

\* C17: the step that applies a scheme decorator to a target leaves on the target's
\* record both the scheme definition under components.securitySchemes (fixed
\* fields plus options) and the security list [{name: []}]; before the step the
\* record holds what it held, so neither is ever there without the other.
C17_SchemeAndRequirementTogether ==
  [][\A kind \in {"class", "method"} :
       (/\ securityApplied'[kind] # securityApplied[kind]
        /\ Last(securityApplied'[kind]).kind # "ApiSecurity")
         => LET given == Last(securityApplied'[kind])
                written == SchemeRecord(kind)'
            IN  /\ DOMAIN written = {"components", "security"}
                /\ DOMAIN written.components = {"securitySchemes"}
                /\ DOMAIN written.components.securitySchemes = {given.name}
                /\ written.components.securitySchemes[given.name] = SchemeOf(given)
                /\ written.security = <<[k \in {given.name} |-> <<>>]>>]_vars

\* a bearer scheme with a description applied to the handler
C17_Witness ==
  /\ securityApplied["method"] # <<>>
  /\ Last(securityApplied["method"]).kind = "ApiBearerAuth"
  /\ Last(securityApplied["method"]).options # EmptyObj
  /\ "security" \in DOMAIN protoMeta[Annotated[1]]

\* the scheme names a metadata record holds under components.securitySchemes
SchemesIn(record) ==
  IF Has(record, "components") /\ Has(record.components, "securitySchemes")
    THEN DOMAIN record.components.securitySchemes
    ELSE {}

\* the schemes recorded for an explored controller: on the class, and for its
\* handlers on the prototype or on the handler
SchemesRecordedFor(c) ==
  SchemesIn(classMeta[c]) \cup SchemesIn(protoMeta[c]) \cup
  UNION {SchemesIn(methodMeta[t]) : t \in {e \in Endpoints : e[1] = c}}

\* C18: every scheme a scheme decorator recorded on an explored controller or on
\* one of its handlers is in the assembled document's components.securitySchemes
\* under its name.
C18_SchemesReachDocument ==
  (Assembled /\ lastSetup.store = store) =>
    \A c \in ControllersOf(lastSetup.modules) :
      \A name \in SchemesRecordedFor(c) :
        /\ Has(document.components, "securitySchemes")
        /\ Has(document.components.securitySchemes, name)

\* the requirement entries of the security decorators applied to a target, in order
RequirementsApplied(kind) ==
  [i \in 1..Len(securityApplied[kind]) |->
     [k \in {securityApplied[kind][i].name} |-> securityApplied[kind][i].scopes]]

SecurityOf(record) == GetOr(record, "security", <<>>)

\* C19: the security list recorded for a target holds one requirement entry per
\* security decorator applied to it, in application order. For the handler, whose
\* decorators write on the handler or on the prototype, the two lists together
\* hold one entry per application.
C19_RequirementsAccumulate ==
  /\ SecurityOf(classMeta[Annotated[1]]) = RequirementsApplied("class")
  /\ Len(SecurityOf(methodMeta[Annotated])) + Len(SecurityOf(protoMeta[Annotated[1]]))
       >= Len(securityApplied["method"])

\* the <<name, in>> of the parameters recorded on the handler, in order
ParametersRecorded ==
  LET parameters == GetOr(methodMeta[Annotated], "parameters", <<>>)
  IN  [i \in 1..Len(parameters) |-> <<parameters[i].name, parameters[i].in>>]

\* C20: the parameters recorded on a handler are one entry per parameter decorator
\* applied to it, in application order, each with the location of its decorator.
C20_ParametersAccumulate == ParametersRecorded = parametersApplied


\* the fields of earlier that given does not name are in later, unchanged
Kept(earlier, later, given) ==
  \A f \in DOMAIN earlier \ given : Has(later, f) /\ later[f] = earlier[f]

ResponsesOf(record) == GetOr(record, "responses", EmptyObj)

PropertyAt(properties, key) ==
  properties[CHOOSE i \in 1..Len(properties) : properties[i][1] = key][2]

PropertiesOf(record) == GetOr(record, "properties", <<>>)

\* C21: a step that applies ApiResponse for a status code the handler already has,
\* or ApiProperty for a property name the model already has, stores under that key
\* the field-merge of the earlier and the later value: every field of the earlier
\* value that the later annotation does not give is still there, unchanged.
C21_KeyValuesMerged ==
  [][/\ \A in \in RepeatedResponses \cup ResponseInputs :
          (/\ ApiResponse(Annotated, in[1], in[2], in[3])
           /\ Has(ResponsesOf(methodMeta[Annotated]), in[1]))
          => Kept(ResponsesOf(methodMeta[Annotated])[in[1]],
                  ResponsesOf(methodMeta'[Annotated])[in[1]],
                  DOMAIN in[2] \cup {"content"})
     /\ \A in \in RepeatedProperties :
          (/\ ApiProperty("User", in[1], in[2], in[3])
           /\ OMHas(PropertiesOf(classMeta["User"]), in[1]))
          => Kept(PropertyAt(PropertiesOf(classMeta["User"]), in[1]),
                  PropertyAt(PropertiesOf(classMeta'["User"]), in[1]),
                  DOMAIN in[3] \cup {"type"})]_vars


\* every field of the record earlier is a field of the record later
FieldsKept(earlier, later) == \A f \in DOMAIN earlier : Has(later, f)

\* C22: no annotation step replaces a record wholesale: every field recorded before
\* the step (operation, tags, responses, requestBody, parameters, security) on the
\* handler, on its class or on its prototype is still a field of that record after it.
C22_AnnotationsMergeIntoRecord ==
  [][/\ \A t \in Endpoints : FieldsKept(methodMeta[t], methodMeta'[t])
     /\ \A c \in Controllers : /\ FieldsKept(classMeta[c], classMeta'[c])
                               /\ FieldsKept(protoMeta[c], protoMeta'[c])]_vars


\* the model-level fields of a record: all but type and properties
ModelFields(record) == [f \in DOMAIN record \ {"type", "properties"} |-> record[f]]

\* properties after key is given schema: an annotated name keeps its place, a new
\* name goes last
Reannotated(properties, key, schema) ==
  IF OMHas(properties, key)
    THEN [i \in 1..Len(properties) |->
            IF properties[i][1] = key THEN <<key, schema>> ELSE properties[i]]
    ELSE properties \o <<<<key, schema>>>>

RECURSIVE HandlersFrom(_, _)
\* the routed handlers of a controller from index i on, in declaration order
HandlersFrom(c, i) ==
  IF i > Len(HandlersOf(c)) THEN <<>>
  ELSE (IF routes[<<c, HandlersOf(c)[i]>>] = EmptyObj THEN <<>>
        ELSE <<<<c, HandlersOf(c)[i]>>>>) \o HandlersFrom(c, i + 1)

RECURSIVE ControllersFrom(_, _)
ControllersFrom(controllers, i) ==
  IF i > Len(controllers) THEN <<>>
  ELSE HandlersFrom(controllers[i], 1) \o ControllersFrom(controllers, i + 1)

RECURSIVE VisitsFrom(_, _)
\* the routed handlers in the order explore visits them for a module list
VisitsFrom(modules, i) ==
  IF i > Len(modules) THEN <<>>
  ELSE ControllersFrom(GetOr(moduleMetadata(modules[i]), "controllers", <<>>), 1)
       \o VisitsFrom(modules, i + 1)

\* the <<full path, method key>> a handler is stored under
KeyOf(t) == <<PathOf(t), toLowerCase(routes[t].method)>>

\* the operation explore builds for a handler from the store
OperationFor(t) == operationOf(getControllerTags(t[1]), methodMeta[t], PathOf(t))

\* C24: when explored handlers share a full path and method the call still returns,
\* and the operation stored under the key is the one of the handler visited last
\* among those that share it.
C24_LastExploredWins ==
  /\ lastCall.n > 0 => lastCall.status = "ok"
  /\ Settled =>
       LET visits == VisitsFrom(lastCall.modules, 1)
       IN  \A i \in 1..Len(visits) :
             (\A j \in (i + 1)..Len(visits) : KeyOf(visits[j]) # KeyOf(visits[i]))
             => OperationAt(visits[i]) = OperationFor(visits[i])

\* the annotated handler visited first and a handler of another controller, with
\* another operation, visited after it under the same key
C24_Witness ==
  /\ Settled
  /\ lastCall.modules = <<"OrgsModule", "UsersModule">>
  /\ KeyOf(Annotated) = KeyOf(<<"UsersController", "list">>)
  /\ OperationFor(Annotated) # OperationFor(<<"UsersController", "list">>)
  /\ OperationAt(Annotated) = OperationFor(<<"UsersController", "list">>)


\* the models collectGlobalSchemas reads: registered, with a properties field
Seeded == {m \in Models : registryHas(registry, m) /\ Has(classMeta[m], "properties")}

\* the property entries of a seeded model whose items refer to a name that the
\* registry does not hold, as <<model, index>>
UnresolvedItems ==
  {e \in UNION {{<<m, i>> : i \in 1..Len(DeclaredProperties(m))} : m \in Seeded} :
     LET prop == DeclaredProperties(e[1])[e[2]][2]
     IN  /\ Has(prop, "items") /\ Has(prop.items, "ref")
         /\ ~registryHas(registry, refNameOf(prop.items))}

\* the property entries of a seeded model whose items refer to a registered name
ResolvedItems ==
  {e \in UNION {{<<m, i>> : i \in 1..Len(DeclaredProperties(m))} : m \in Seeded} :
     LET prop == DeclaredProperties(e[1])[e[2]][2]
     IN  /\ Has(prop, "items") /\ Has(prop.items, "ref")
         /\ registryHas(registry, refNameOf(prop.items))}

\* C25: a reference to a model that the registry does not hold does not make
\* explore fail (a call whose references are all of that kind returns), the
\* property that carries it is returned as it was declared, and the returned
\* schemas hold no entry for the name.
C25_UnresolvedReferenceSoft ==
  (lastCall.n > 0 /\ lastCall.store = store) =>
    /\ ResolvedItems = {} => lastCall.status = "ok"
    /\ lastCall.status = "ok" =>
         /\ \A e \in UnresolvedItems :
              /\ lastCall.schemas[e[1]].properties[e[2]] = DeclaredProperties(e[1])[e[2]]
              /\ ~Has(lastCall.schemas, refNameOf(DeclaredProperties(e[1])[e[2]][2].items))
         /\ \A name \in DOMAIN lastCall.schemas : registryHas(registry, name)

\* an explore over a registered model whose list property refers to User, which
\* was never registered
C25_Witness ==
  /\ Settled
  /\ <<"Post", 1>> \in UnresolvedItems
  /\ DeclaredProperties("Post")[1][2].items = RefTo("User")
  /\ Has(lastCall.schemas, "Post")


NoConflict ==
  \A t, u \in {e \in Endpoints : routes[e] # EmptyObj} : KeyOf(t) = KeyOf(u) => t = u

\* the registered models that the items of a property of m refer to
ItemRefs(m) ==
  {n \in Models :
     /\ registryHas(registry, n)
     /\ \E i \in 1..Len(DeclaredProperties(m)) :
          LET prop == DeclaredProperties(m)[i][2]
          IN  Has(prop, "items") /\ Has(prop.items, "ref") /\ refNameOf(prop.items) = n}

RECURSIVE ReachedFrom(_, _)
\* S and the registered models reached from it through items, in at most k steps
ReachedFrom(S, k) ==
  IF k = 0 THEN S ELSE ReachedFrom(S \cup UNION {ItemRefs(m) : m \in S}, k - 1)

\* the schema map as a function of the set of registered names and of the records
SchemasByName ==
  [m \in ReachedFrom(Seeded, Cardinality(Models)) |->
     Spread(Spread([type |-> "object"], classMeta[m]),
            [properties |-> DeclaredProperties(m)])]

\* C27: with no two handlers under one path and method, explore's result does not
\* depend on order: two calls over an unchanged store whose module lists name the
\* same controllers in different orders end alike, with equal paths and schema maps,
\* and the schema map returned is the one determined by which names the registry
\* holds and by their records, whatever the order the names were registered in.
C27_OrderIndependent ==
  NoConflict =>
    /\ (/\ lastCall.n >= 2
        /\ prevCall.store = lastCall.store
        /\ ControllersOf(prevCall.modules) = ControllersOf(lastCall.modules))
       => /\ prevCall.status = lastCall.status
          /\ lastCall.status = "ok" => /\ lastCall.paths = prevCall.paths
                                       /\ lastCall.schemas = prevCall.schemas
    /\ Settled => lastCall.schemas = SchemasByName

\* two calls that visit the controllers in opposite orders, over two models that
\* were registered second-first
C27_Witness ==
  /\ Settled
  /\ lastCall.n = 2 /\ prevCall.status = "ok" /\ prevCall.store = store
  /\ prevCall.modules = <<"UsersModule", "OrgsModule">>
  /\ lastCall.modules = <<"OrgsModule", "UsersModule">>
  /\ registry = <<"Post", "User">>
  /\ DOMAIN lastCall.schemas = {"User", "Post"}
  /\ Cardinality(DOMAIN lastCall.paths) = 2


\* C28: a step that applies ApiModel or ApiProperty to one model class leaves the
\* record of every other model class as it was, on the constructor and on the
\* prototype, also when the annotated class extends an annotated model class.
C28_WritesConfinedToTarget ==
  [][\A m \in ModelClasses :
       (\/ \E metadata \in ModelInputs : ApiModel(m, metadata)
        \/ \E in \in PropertyInputs : ApiProperty(m, in[1], in[2], in[3]))
       => \A o \in ModelClasses \ {m} : /\ classMeta'[o] = classMeta[o]
                                        /\ protoMeta'[o] = protoMeta[o]]_vars


\* the part of the store the schema map is made from: the class records and the
\* registry
ModelStore(call) == <<call.store[1], call.store[4]>>

\* C29: two explore calls over the same registry and the same class records end
\* alike and, when they return, return equal schema maps, whatever their module
\* lists and whatever the handlers' annotations.
C29_SchemasFromRegistryOnly ==
  (lastCall.n >= 2 /\ ModelStore(prevCall) = ModelStore(lastCall))
    => /\ prevCall.status = lastCall.status
       /\ lastCall.status = "ok" => lastCall.schemas = prevCall.schemas

\* two calls with different module lists, one of them empty, over a registry that
\* seeds a schema
C29_Witness ==
  /\ lastCall.n >= 2 /\ ModelStore(prevCall) = ModelStore(lastCall)
  /\ lastCall.status = "ok"
  /\ prevCall.modules = <<>>
  /\ lastCall.modules = <<"OrgsModule", "AppModule">>
  /\ lastCall.paths # prevCall.paths
  /\ lastCall.schemas # EmptyObj


\* C30: no full path key that explore produces has an empty segment: it never
\* holds two consecutive '/' characters, whatever the base path and the route path.
C30_NoEmptySegment ==
  \A k \in DOMAIN paths : \A i \in 1..(Len(k) - 1) : ~(k[i] = SLASH /\ k[i + 1] = SLASH)

====
